---- MODULE Spec2Model ----
(***************************************************************************)
(* Model of the 28-day consistency score (src/src/scoring.ts) and of the   *)
(* Firestore query helpers that feed it (src/src/queries.ts).              *)
(*                                                                         *)
(* Representation.                                                         *)
(*  - An instant (a JS Date) is an integer count of 30-minute ticks since  *)
(*    2024-01-01T00:00Z.                                                   *)
(*  - A civil date string "YYYY-MM-DD" is the integer day number of that   *)
(*    date (2024-01-01 is day 0).  Formatting is a bijection between day   *)
(*    numbers and strings and localeCompare on such strings is the order   *)
(*    of the day numbers; `new Date("YYYY-MM-DD")` is UTC midnight of the  *)
(*    day, i.e. dayNumber * TicksPerDay.                                   *)
(*  - JS numbers that are fractions (baseScore, distributionBonus) are     *)
(*    kept exactly, as numerators over WINDOW_DAYS: breakdown.baseScore    *)
(*    = 240 stands for 240/28.  streakBonus and recencyBonus are integers  *)
(*    in the code and are kept unscaled.  averageGap is a pair <<sum, n>>. *)
(*  - A thrown exception is the record [ok |-> FALSE, error |-> ...]; a    *)
(*    normal return is [ok |-> TRUE, value |-> ...].                       *)
(***************************************************************************)
EXTENDS Integers, Sequences, FiniteSets, TLC

VARIABLES
    sessions,       \* input.sessions: the list the caller passes
    referenceDate,  \* input.referenceDate (after defaulting to the clock)
    timezone,       \* input.timezone as passed ("undefined" when omitted)
    processTZ,      \* time zone of the host process (used by Date#setDate)
    budget,         \* how many more sessions the caller may still append
    pc,             \* "input" | "returned" | "threw"
    result,         \* what calculateConsistencyScore returned or threw
    previous,       \* outcome of the same call on the host used before
    userIds,        \* the list passed to batchFetchUserSessions
    calls,          \* per list position: the fetch and its wrapper promise
    batch           \* the promise batchFetchUserSessions returned

scoreVars == <<sessions, timezone, budget, pc, result, previous>>
batchVars == <<userIds, calls, batch>>

vars == <<sessions, referenceDate, timezone, processTZ, budget, pc, result,
          previous, userIds, calls, batch>>

-----------------------------------------------------------------------------
(* Bounds of the model *)

MaxSessions == 3    \* sessions appended to an empty list
MaxExtra == 1       \* sessions appended to a preset history
MaxUsers == 2       \* length of the longest userIds list

-----------------------------------------------------------------------------
(* Time *)

WINDOW_DAYS == 28

\* 1000 * 60 * 60 * 24 ms, in 30-minute ticks
TicksPerDay == 48

At(day, hour, half) == day * TicksPerDay + 2 * hour + half

\* 2024-03-10T07:00Z: America/New_York goes from EST (-5h) to EDT (-4h)
NYDstStart == At(69, 7, 0)

RecognizedZones == {"UTC", "America/New_York", "Asia/Kolkata"}

\* Offset from UTC, in ticks, that the zone rules give at instant t
UtcOffset(zone, t) ==
    CASE zone = "UTC" -> 0
      [] zone = "Asia/Kolkata" -> 11
      [] zone = "America/New_York" -> IF t < NYDstStart THEN -10 ELSE -8

Throw(e) == [ok |-> FALSE, error |-> e]
Return(v) == [ok |-> TRUE, value |-> v]

\* Mutant: an unrecognized zone silently falls back to UTC
toLocalDateString_FallbackUTC(date, timezone_) ==
    IF timezone_ \notin RecognizedZones
    THEN Return(date \div TicksPerDay)
    ELSE Return((date + UtcOffset(timezone_, date)) \div TicksPerDay)

\* Mutant: the UTC date of the instant (toISOString().slice(0, 10))
toLocalDateString_UtcDate(date, timezone_) ==
    IF timezone_ \notin RecognizedZones
    THEN Throw("RangeError")
    ELSE Return(date \div TicksPerDay)

\* Convert Date to YYYY-MM-DD in user's timezone; the Intl.DateTimeFormat
\* constructor throws RangeError on an unrecognized timeZone.
toLocalDateString(date, timezone_) ==
    IF timezone_ \notin RecognizedZones
    THEN Throw("RangeError")
    ELSE Return((date + UtcOffset(timezone_, date)) \div TicksPerDay)

\* new Date("YYYY-MM-DD"): UTC midnight of that day
NewDate(dateStr) == dateStr * TicksPerDay

\* Local wall-clock reading of instant t in the host zone
LocalTime(t) == t + UtcOffset(processTZ, t)

\* The instant whose host-zone wall clock reads `wall`; a wall time skipped
\* by a transition is read with the offset in force before the transition.
UTCOf(wall) ==
    LET before == UtcOffset(processTZ, NYDstStart - 1)
        after == UtcOffset(processTZ, NYDstStart)
        valid == {t \in {wall - before, wall - after} : LocalTime(t) = wall}
    IN IF valid = {} THEN wall - before
       ELSE CHOOSE t \in valid : \A u \in valid : t <= u

\* d.setDate(d.getDate() + delta): moves the host-zone calendar day and
\* keeps the host-zone time of day
setDate(date, delta) == UTCOf(LocalTime(date) + delta * TicksPerDay)

\* Math.floor((curr.getTime() - prev.getTime()) / (1000 * 60 * 60 * 24))
DayDiff(prevStr, currStr) ==
    (NewDate(currStr) - NewDate(prevStr)) \div TicksPerDay

Min(a, b) == IF a <= b THEN a ELSE b
Max(a, b) == IF a >= b THEN a ELSE b

-----------------------------------------------------------------------------
(* groupSessionsByDay *)

\* Math.max(0, Number(session.durationSec) || 0)
NormalizeDuration(durationSec) ==
    IF durationSec.kind = "number" THEN Max(0, durationSec.value) ELSE 0

\* Sum of the normalized durations of the sessions at the given indices
RECURSIVE SumOver(_, _)
SumOver(indices, sessions_) ==
    IF indices = {} THEN 0
    ELSE LET i == CHOOSE i \in indices : TRUE
         IN NormalizeDuration(sessions_[i].durationSec)
            + SumOver(indices \ {i}, sessions_)

IndexOfDate(days, dateStr) ==
    IF \E i \in 1..Len(days) : days[i].date = dateStr
    THEN CHOOSE i \in 1..Len(days) : days[i].date = dateStr
    ELSE 0

\* The Map after the for-loop, as its values in insertion order: a key is
\* inserted by the first session of its date, and every session of the date
\* adds 1 to sessionCount and its normalized duration to totalDurationSec.
dayMapOf(sessions_, timezone_) ==
    LET dateOf(i) == toLocalDateString(sessions_[i].timestamp, timezone_).value
        inserts == {i \in 1..Len(sessions_) :
                       \A j \in 1..(i - 1) : dateOf(j) # dateOf(i)}
        nth(k) == CHOOSE i \in inserts :
                      Cardinality({j \in inserts : j <= i}) = k
        ofDate(d) == {i \in 1..Len(sessions_) : dateOf(i) = d}
    IN [k \in 1..Cardinality(inserts) |->
           LET dateStr == dateOf(nth(k))
           IN [date |-> dateStr,
               sessionCount |-> Cardinality(ofDate(dateStr)),
               totalDurationSec |->
                   SumOver(ofDate(dateStr), sessions_)]]

\* Array.prototype.sort((a, b) => a.date.localeCompare(b.date)): stable, so
\* an entry goes after the entries of smaller date and after the entries of
\* equal date that came before it.
sortByDate(days) ==
    LET rank(i) ==
            Cardinality({j \in 1..Len(days) :
                \/ days[j].date < days[i].date
                \/ (days[j].date = days[i].date /\ j < i)})
    IN [k \in 1..Len(days) |->
           days[CHOOSE i \in 1..Len(days) : rank(i) = k - 1]]

groupSessionsByDay(sessions_, timezone_) ==
    IF \E i \in 1..Len(sessions_) :
           ~toLocalDateString(sessions_[i].timestamp, timezone_).ok
    THEN Throw("RangeError")
    ELSE Return(sortByDate(dayMapOf(sessions_, timezone_)))

-----------------------------------------------------------------------------
(* Score components.  Fractions are numerators over WINDOW_DAYS. *)

MAX_BASE_SCORE == 60
MAX_DISTRIBUTION_BONUS == 25
MAX_STREAK_BONUS == 10
POINTS_PER_DAY == 2

\* (activeDays.length / WINDOW_DAYS) * MAX_BASE_SCORE, times WINDOW_DAYS
calculateBaseScore(activeDays) == Len(activeDays) * MAX_BASE_SCORE

\* The day differences of consecutive active days
gapsOf(activeDays) ==
    [i \in 1..(Len(activeDays) - 1) |->
        DayDiff(activeDays[i].date, activeDays[i + 1].date)]

\* Math.max(...gaps) of a non-empty array
MaxOf(seq) == CHOOSE x \in {seq[i] : i \in 1..Len(seq)} :
                  \A i \in 1..Len(seq) : seq[i] <= x

RECURSIVE SumOf(_)
SumOf(seq) == IF Len(seq) = 0 THEN 0
              ELSE seq[Len(seq)] + SumOf(SubSeq(seq, 1, Len(seq) - 1))

\* Math.min(...gaps) of a non-empty array
MinOf(seq) == CHOOSE x \in {seq[i] : i \in 1..Len(seq)} :
                  \A i \in 1..Len(seq) : seq[i] >= x

\* Mutant: measures the smallest gap instead of the longest
calculateDistributionBonus_MinGap(activeDays) ==
    IF Len(activeDays) < 2 THEN 0
    ELSE LET minGap == MinOf(gapsOf(activeDays))
         IN (WINDOW_DAYS - Min(minGap, WINDOW_DAYS)) * MAX_DISTRIBUTION_BONUS

\* Mutant: the normalized gap is not capped at 1
calculateDistributionBonus_NoCap(activeDays) ==
    IF Len(activeDays) < 2 THEN 0
    ELSE LET maxGap == MaxOf(gapsOf(activeDays))
         IN (WINDOW_DAYS - maxGap) * MAX_DISTRIBUTION_BONUS

\* (1 - Math.min(maxGap / WINDOW_DAYS, 1)) * MAX_DISTRIBUTION_BONUS,
\* times WINDOW_DAYS
calculateDistributionBonus(activeDays) ==
    IF Len(activeDays) < 2 THEN 0
    ELSE LET maxGap == MaxOf(gapsOf(activeDays))
         IN (WINDOW_DAYS - Min(maxGap, WINDOW_DAYS)) * MAX_DISTRIBUTION_BONUS

\* The for-loop of calculateStreakBonus from step i on
RECURSIVE streakWalk(_, _, _, _, _)
streakWalk(activeDaySet, checkDate, timezone_, i, streak) ==
    IF i >= WINDOW_DAYS THEN streak
    ELSE LET dateStr == toLocalDateString(checkDate, timezone_).value
         IN IF dateStr \in activeDaySet
            THEN streakWalk(activeDaySet, setDate(checkDate, -1), timezone_,
                            i + 1, streak + 1)
            ELSE IF streak > 0 THEN streak
            ELSE streakWalk(activeDaySet, setDate(checkDate, -1), timezone_,
                            i + 1, streak)

calculateStreakBonus(activeDays, referenceDate_, timezone_) ==
    IF Len(activeDays) = 0 THEN Return(0)
    ELSE IF ~toLocalDateString(referenceDate_, timezone_).ok
    THEN Throw("RangeError")
    ELSE LET activeDaySet == {activeDays[i].date : i \in 1..Len(activeDays)}
             checkDate ==
                 NewDate(toLocalDateString(referenceDate_, timezone_).value)
             streak == streakWalk(activeDaySet, checkDate, timezone_, 0, 0)
         IN Return(Min(streak * POINTS_PER_DAY, MAX_STREAK_BONUS))

calculateRecencyBonus(metadata) ==
    IF metadata.daysSinceLastSession <= 1 THEN 5
    ELSE IF metadata.daysSinceLastSession <= 3 THEN 3
    ELSE IF metadata.daysSinceLastSession <= 7 THEN 1
    ELSE 0

calculateScoreBreakdown(activeDays, metadata) ==
    [baseScore |-> calculateBaseScore(activeDays),
     distributionBonus |-> calculateDistributionBonus(activeDays),
     streakBonus |-> 0,
     recencyBonus |-> calculateRecencyBonus(metadata)]

-----------------------------------------------------------------------------
(* calculateMetadata *)

\* The longest-streak loop: <<longestStreak, currentStreak>> after pair i
RECURSIVE streakScan(_, _)
streakScan(activeDays, i) ==
    IF i <= 1 THEN <<1, 1>>
    ELSE LET before == streakScan(activeDays, i - 1)
             diffDays == DayDiff(activeDays[i - 1].date, activeDays[i].date)
         IN IF diffDays = 1
            THEN <<Max(before[1], before[2] + 1), before[2] + 1>>
            ELSE <<before[1], 1>>

\* Mutant: no "never" sentinel, an empty history counts as active today
EmptyMetadata_NoSentinel ==
    [totalSessions |-> 0, activeDays |-> 0, longestStreak |-> 0,
     longestGap |-> 0, averageGap |-> <<0, 1>>, daysSinceLastSession |-> 0]

\* What calculateMetadata returns when activeDays.length === 0
EmptyMetadata ==
    [totalSessions |-> 0, activeDays |-> 0, longestStreak |-> 0,
     longestGap |-> 0, averageGap |-> <<0, 1>>,
     daysSinceLastSession |-> WINDOW_DAYS]

\* Mutant: counts the buckets instead of summing their sessionCount
totalSessionsOf_Buckets(activeDays) == Len(activeDays)

\* activeDays.reduce((sum, d) => sum + d.sessionCount, 0)
totalSessionsOf(activeDays) ==
    SumOf([i \in 1..Len(activeDays) |-> activeDays[i].sessionCount])

\* Mutant: reports the run that ends on the last active date
longestStreakOf_Current(activeDays) ==
    streakScan(activeDays, Len(activeDays))[2]

\* longestStreak when the longest-streak loop has ended
longestStreakOf(activeDays) == streakScan(activeDays, Len(activeDays))[1]

\* Mutant: the last active date is formatted in the target zone once more
daysSinceLastSessionOf_Reformatted(activeDays, referenceDate_, timezone_) ==
    LET lastDate ==
            NewDate(toLocalDateString(
                        NewDate(activeDays[Len(activeDays)].date),
                        timezone_).value)
        refLocal ==
            NewDate(toLocalDateString(referenceDate_, timezone_).value)
    IN  (refLocal - lastDate) \div TicksPerDay

daysSinceLastSessionOf(activeDays, referenceDate_, timezone_) ==
    LET lastDate == NewDate(activeDays[Len(activeDays)].date)
        refLocal ==
            NewDate(toLocalDateString(referenceDate_, timezone_).value)
    IN  (refLocal - lastDate) \div TicksPerDay

calculateMetadata(activeDays, referenceDate_, timezone_) ==
    IF Len(activeDays) = 0
    THEN Return(EmptyMetadata)
    ELSE IF ~toLocalDateString(referenceDate_, timezone_).ok
    THEN Throw("RangeError")
    ELSE LET totalSessions == totalSessionsOf(activeDays)
             longestStreak == longestStreakOf(activeDays)
             gaps == gapsOf(activeDays)
             longestGap == IF Len(gaps) > 0 THEN MaxOf(gaps) ELSE 0
             averageGap == IF Len(gaps) > 0 THEN <<SumOf(gaps), Len(gaps)>>
                           ELSE <<0, 1>>
             daysSinceLastSession ==
                 daysSinceLastSessionOf(activeDays, referenceDate_, timezone_)
         IN Return([totalSessions |-> totalSessions,
                    activeDays |-> Len(activeDays),
                    longestStreak |-> longestStreak,
                    longestGap |-> longestGap,
                    averageGap |-> averageGap,
                    daysSinceLastSession |-> daysSinceLastSession])

-----------------------------------------------------------------------------
(* generateChartData *)

generateChartData(activeDays, referenceDate_, timezone_) ==
    IF ~toLocalDateString(referenceDate_, timezone_).ok
    THEN Throw("RangeError")
    ELSE Return(
        [k \in 1..WINDOW_DAYS |->
            LET i == WINDOW_DAYS - k
                d == setDate(referenceDate_, -i)
                dateStr == toLocalDateString(d, timezone_).value
                at == IndexOfDate(activeDays, dateStr)
            IN [date |-> dateStr,
                hasActivity |-> at # 0,
                sessionCount |-> IF at # 0 THEN activeDays[at].sessionCount
                                 ELSE 0]])

-----------------------------------------------------------------------------
(* generateExplanations *)

\* Math.round(num / den) for num >= 0, den > 0
RoundDiv(num, den) == (2 * num + den) \div (2 * den)

Bullet(template, args) == [template |-> template, args |-> args]

\* Mutant: keeps one bullet too few
sliceBullets_Four(bullets) == SubSeq(bullets, 1, Min(4, Len(bullets)))

\* bullets.slice(0, 5)
sliceBullets(bullets) == SubSeq(bullets, 1, Min(5, Len(bullets)))

generateExplanations(metadata, breakdown) ==
    LET pct == RoundDiv(metadata.activeDays * 100, WINDOW_DAYS)
        b1 == <<Bullet("You trained ${activeDays} out of 28 days (${pct}%)",
                       <<metadata.activeDays, pct>>)>>
        distPct == RoundDiv(breakdown.distributionBonus * 100,
                            25 * WINDOW_DAYS)
        b2 == IF metadata.activeDays >= 2
              THEN Append(b1,
                     IF distPct >= 75
                     THEN Bullet("Your sessions are evenly distributed", <<>>)
                     ELSE IF distPct >= 50
                     THEN Bullet("Your sessions are fairly well spaced", <<>>)
                     ELSE Bullet("Long gaps reduce your consistency score",
                                 <<>>))
              ELSE b1
        b3 == IF metadata.longestStreak > 1
              THEN Append(b2, Bullet("Longest streak: ${longestStreak} days",
                                     <<metadata.longestStreak>>))
              ELSE b2
        b4 == IF metadata.daysSinceLastSession <= 3
              THEN Append(b3,
                     IF metadata.daysSinceLastSession = 0
                     THEN Bullet("You exercised today-great momentum!", <<>>)
                     ELSE Bullet(
                            "Last session was ${daysSinceLastSession} days ago",
                            <<metadata.daysSinceLastSession>>))
              ELSE b3
        b5 == IF metadata.longestGap > 7 /\ Len(b4) < 5
              THEN Append(b4, Bullet("Longest gap: ${longestGap} days",
                                     <<metadata.longestGap>>))
              ELSE b4
    IN sliceBullets(b5)

-----------------------------------------------------------------------------
(* calculateConsistencyScore *)

\* Sums base + distribution (in WINDOW_DAYS-ths) whose IEEE-754 double value
\* lies one ulp below an exact .5, with the power of two from which the
\* double sum of all four components is exact again:
\* (3/28)*60 + (1 - 10/28)*25 = 22.499999999999996, and so on.
DoubleBelowHalf ==
    {<<180, 450, 32>>, <<720, 50, 32>>, <<1020, 450, 64>>, <<2040, 550, 128>>}

\* Math.round(rawScore) of the double
\*   baseScore + distributionBonus + streakBonus + recencyBonus
MathRoundRawScore(breakdown) ==
    LET raw == breakdown.baseScore + breakdown.distributionBonus
               + WINDOW_DAYS * (breakdown.streakBonus + breakdown.recencyBonus)
        exact == RoundDiv(raw, WINDOW_DAYS)
    IN IF \E e \in DoubleBelowHalf :
              /\ e[1] = breakdown.baseScore
              /\ e[2] = breakdown.distributionBonus
              /\ raw < e[3] * WINDOW_DAYS
       THEN exact - 1
       ELSE exact

\* Mutant: the defensive clamp is dropped
clampScore_Unclamped(breakdown) == MathRoundRawScore(breakdown)

\* Mutant: each component is rounded before the components are added
clampScore_RoundEach(breakdown) ==
    Max(0, Min(100, RoundDiv(breakdown.baseScore, WINDOW_DAYS)
                    + RoundDiv(breakdown.distributionBonus, WINDOW_DAYS)
                    + breakdown.streakBonus + breakdown.recencyBonus))

\* Math.max(0, Math.min(100, Math.round(rawScore)))
clampScore(breakdown) == Max(0, Min(100, MathRoundRawScore(breakdown)))

\* const { sessions, referenceDate = new Date(), timezone = 'UTC' } = input
TimezoneOrDefault(timezone_) ==
    IF timezone_ = "undefined" THEN "UTC" ELSE timezone_

calculateConsistencyScore(input) ==
    LET tz == TimezoneOrDefault(input.timezone)
        grouped == groupSessionsByDay(input.sessions, tz)
    IN IF ~grouped.ok THEN grouped
       ELSE
       LET activeDays == grouped.value
           meta == calculateMetadata(activeDays, input.referenceDate, tz)
       IN IF ~meta.ok THEN meta
          ELSE
          LET metadata == meta.value
              streak == calculateStreakBonus(activeDays, input.referenceDate, tz)
          IN IF ~streak.ok THEN streak
             ELSE
             LET breakdown ==
                     [calculateScoreBreakdown(activeDays, metadata)
                          EXCEPT !.streakBonus = streak.value]
                 chart == generateChartData(activeDays, input.referenceDate, tz)
             IN IF ~chart.ok THEN chart
                ELSE
                LET explanations == generateExplanations(metadata, breakdown)
                    score == clampScore(breakdown)
                IN Return([score |-> score,
                           explanations |-> explanations,
                           chartData |-> chart.value,
                           metadata |-> metadata,
                           breakdown |-> breakdown])

-----------------------------------------------------------------------------
(* Inputs *)

Num(n) == [kind |-> "number", value |-> n]
Missing == [kind |-> "undefined", value |-> 0]

Session(id, timestamp, durationSec) ==
    [id |-> id, timestamp |-> timestamp, durationSec |-> durationSec]

\* 2024-03-20T04:30Z (00:30 in New York), 2024-03-20T12:00Z and
\* 2024-03-20T20:00Z (01:30 on Mar 21 in Kolkata)
ReferenceDates == {At(79, 4, 1), At(79, 12, 0), At(79, 20, 0)}

TimezoneInputs ==
    {"undefined", "UTC", "America/New_York", "Asia/Kolkata", "Mars/Olympus"}

ProcessZones == {"UTC", "America/New_York"}

Old == Session("old", At(40, 12, 0), Num(30))        \* before the window
DstA == Session("dst-a", At(69, 6, 1), Num(30))      \* 01:30 EST, Mar 10
DstB == Session("dst-b", At(70, 3, 0), Missing)      \* 23:00 EDT, Mar 10
Late == Session("late", At(78, 3, 1), Num(-5))       \* 23:30 New York, Mar 18
Early == Session("early", At(78, 4, 0), Num(45))     \* 00:00 New York, Mar 19
Today == Session("today", At(79, 2, 0), Num(30))     \* Mar 20 in UTC
After == Session("after", At(79, 20, 0), Num(30))    \* after the reference

\* Sessions a caller may pass
SessionPool == {Old, DstA, DstB, Late, Early, Today, After}

createSession(day) == Session("daily", At(day, 12, 0), Num(30))

\* One session at noon UTC on each of the days first..last
DailyRun(first, last) ==
    [i \in 1..(last - first + 1) |-> createSession(first + i - 1)]

\* Sessions 27, 20, 12 and 2 days before 2024-03-20
ScenarioA ==
    <<createSession(52), createSession(59), createSession(67),
      createSession(77)>>

Histories ==
    {ScenarioA, DailyRun(52, 79), DailyRun(51, 79), DailyRun(70, 74),
     DailyRun(79, 79)}

-----------------------------------------------------------------------------
(* queries.ts *)

DEFAULT_WINDOW_DAYS == 28
DEFAULT_LIMIT == 200

\* A promise that has not settled; Return(v) is a fulfilled promise and
\* Throw(e) a rejected one
Pending == [ok |-> FALSE, error |-> "pending"]

Users == {"u1", "u2"}

\* users/{userId}/sessions: u1 trained every day at 12:00Z from Feb 19 to
\* Mar 21, u2 has the sessions of the pool
Db ==
    [u \in Users |->
        IF u = "u1" THEN {createSession(day) : day \in 49..80}
        ELSE SessionPool]

\* options of fetchUserSessions; both fields are optional
Options(limit, referenceDate_) ==
    [limit |-> limit, referenceDate |-> referenceDate_]

\* startDate.setHours(0, 0, 0, 0): midnight of the host-zone calendar day
setHoursZero(date) ==
    UTCOf((LocalTime(date) \div TicksPerDay) * TicksPerDay)

\* startDate of fetchUserSessions
startDateOf(referenceDate_, days) ==
    setHoursZero(setDate(referenceDate_, -days))

\* Number(data.durationSec) || 0
NumberOrZero(x) == IF x.kind = "number" THEN Num(x.value) ELSE Num(0)

\* What fetchUserSessions resolves with when the query succeeds; `now` is
\* the clock reading used when options.referenceDate is omitted
fetchUserSessions(db, userId, days, options, now) ==
    LET limit == IF options.limit = Missing THEN DEFAULT_LIMIT
                 ELSE options.limit.value
        referenceDate_ == IF options.referenceDate = Missing THEN now
                          ELSE options.referenceDate.value
        startDate == startDateOf(referenceDate_, days)
        docs == {d \in db[userId] :
                    /\ d.timestamp >= startDate
                    /\ d.timestamp <= referenceDate_}
        rank(d) == 1 + Cardinality({e \in docs : e.timestamp > d.timestamp})
        n == Min(limit, Cardinality(docs))
    IN  [k \in 1..n |->
            LET doc == CHOOSE d \in docs : rank(d) = k
            IN  Session(doc.id, doc.timestamp, NumberOrZero(doc.durationSec))]

\* The outcome of db...get() for one user: the query either succeeds or
\* fails (network, permissions, missing index)
QueryOutcomes(userId, now) ==
    {Return(fetchUserSessions(Db, userId, DEFAULT_WINDOW_DAYS,
                              Options(Missing, Missing), now)),
     Throw("FirestoreError")}

\* Mutant: the wrapper has no try/catch
wrapperOutcome_NoCatch(userId, fetched) ==
    IF fetched.ok THEN Return(<<userId, fetched.value>>)
    ELSE Throw(fetched.error)

\* try { return [userId, sessions] } catch { return [userId, []] }
wrapperOutcome(userId, fetched) ==
    IF fetched.ok THEN Return(<<userId, fetched.value>>)
    ELSE Return(<<userId, <<>>>>)

\* Promise.all(promises): rejected as soon as one promise is rejected,
\* fulfilled with all values, in list order, once every promise is fulfilled
PromiseAll(promises) ==
    IF \E i \in 1..Len(promises) :
           ~promises[i].ok /\ promises[i] # Pending
    THEN LET i == CHOOSE j \in 1..Len(promises) :
                      ~promises[j].ok /\ promises[j] # Pending
         IN  Throw(promises[i].error)
    ELSE IF \E i \in 1..Len(promises) : promises[i] = Pending
    THEN Pending
    ELSE Return([i \in 1..Len(promises) |-> promises[i].value])

\* new Map(entries): a later entry replaces an earlier one with its key
NewMap(entries) ==
    [key \in {entries[i][1] : i \in 1..Len(entries)} |->
        LET last == CHOOSE i \in 1..Len(entries) :
                        /\ entries[i][1] = key
                        /\ \A j \in 1..Len(entries) :
                               entries[j][1] = key => j <= i
        IN  entries[last][2]]

-----------------------------------------------------------------------------
(* The caller *)

NotCalled == [ok |-> FALSE, error |-> "not called"]

\* batchFetchUserSessions is not in use
NoBatch ==
    /\ userIds = <<>>
    /\ calls = <<>>
    /\ batch = NotCalled

InitEnv ==
    /\ referenceDate \in ReferenceDates
    /\ timezone \in TimezoneInputs
    /\ processTZ \in ProcessZones
    /\ pc = "input"
    /\ result = Pending
    /\ previous = Pending

\* The caller starts from the empty list or from a preset history
Init ==
    /\ InitEnv
    /\ NoBatch
    /\ \/ sessions = <<>> /\ budget = MaxSessions
       \/ sessions \in Histories /\ budget = MaxExtra

AddSession(s) ==
    /\ pc = "input"
    /\ budget > 0
    /\ sessions' = Append(sessions, s)
    /\ budget' = budget - 1
    /\ UNCHANGED <<referenceDate, timezone, processTZ, pc, result, previous>>
    /\ UNCHANGED batchVars

\* The caller scores what fetchUserSessions returns for one user, with the
\* default window and the reference instant of the score
FetchSessions(userId) ==
    /\ pc = "input"
    /\ sessions = <<>>
    /\ budget = MaxSessions
    /\ sessions' = fetchUserSessions(Db, userId, DEFAULT_WINDOW_DAYS,
                                     Options(Missing, Num(referenceDate)),
                                     referenceDate)
    /\ budget' = 0
    /\ UNCHANGED <<referenceDate, timezone, processTZ, pc, result, previous>>
    /\ UNCHANGED batchVars

Calculate ==
    /\ pc = "input"
    /\ result' = calculateConsistencyScore(
                     [sessions |-> sessions, referenceDate |-> referenceDate,
                      timezone |-> timezone])
    /\ pc' = IF result'.ok THEN "returned" ELSE "threw"
    /\ UNCHANGED <<sessions, referenceDate, timezone, processTZ, budget,
                   previous>>
    /\ UNCHANGED batchVars

\* The same input is scored once more by a process whose host time zone
\* differs (another server, or TZ changed in the environment)
Rehost ==
    /\ pc # "input"
    /\ previous = Pending
    /\ previous' = result
    /\ processTZ' \in ProcessZones \ {processTZ}
    /\ pc' = "input"
    /\ result' = Pending
    /\ budget' = 0
    /\ UNCHANGED <<sessions, referenceDate, timezone>>
    /\ UNCHANGED batchVars

Next ==
    \/ \E s \in SessionPool : AddSession(s)
    \/ \E u \in Users : FetchSessions(u)
    \/ Calculate
    \/ Rehost

Spec == Init /\ [][Next]_vars

-----------------------------------------------------------------------------
(* batchFetchUserSessions *)

\* Lists of at most MaxUsers user ids, repetitions included
UserIdLists ==
    UNION {[1..n -> Users] : n \in 0..MaxUsers}

\* The clock reading (new Date()) when the batch is started
InitBatch ==
    /\ referenceDate \in ReferenceDates
    /\ processTZ \in ProcessZones
    /\ timezone = "undefined"
    /\ sessions = <<>>
    /\ budget = 0
    /\ pc = "input"
    /\ result = Pending
    /\ previous = Pending
    /\ userIds \in UserIdLists
    /\ calls = <<>>
    /\ batch = NotCalled

\* userIds.map(async userId => ...) runs every callback up to its await:
\* all queries are issued, in list order, before the first one settles
StartBatch ==
    /\ batch = NotCalled
    /\ calls' = [i \in 1..Len(userIds) |->
                    [userId |-> userIds[i], fetch |-> Pending,
                     wrapper |-> Pending]]
    /\ batch' = Pending
    /\ UNCHANGED <<userIds, referenceDate, processTZ>>
    /\ UNCHANGED scoreVars

\* The fetch of position i settles: fetchUserSessions resolves or rejects
FetchSettles(i, outcome) ==
    /\ i \in 1..Len(calls)
    /\ calls[i].fetch = Pending
    /\ calls' = [calls EXCEPT ![i].fetch = outcome]
    /\ UNCHANGED <<userIds, batch, referenceDate, processTZ>>
    /\ UNCHANGED scoreVars

\* The callback of position i resumes after its await and returns
WrapperReturns(i) ==
    /\ i \in 1..Len(calls)
    /\ calls[i].fetch # Pending
    /\ calls[i].wrapper = Pending
    /\ calls' = [calls EXCEPT
                    ![i].wrapper = wrapperOutcome(calls[i].userId,
                                                  calls[i].fetch)]
    /\ UNCHANGED <<userIds, batch, referenceDate, processTZ>>
    /\ UNCHANGED scoreVars

\* await Promise.all(...) settles; return new Map(results)
BatchSettles ==
    /\ batch = Pending
    /\ LET all == PromiseAll([i \in 1..Len(calls) |-> calls[i].wrapper])
       IN  /\ all # Pending
           /\ batch' = IF all.ok THEN Return(NewMap(all.value)) ELSE all
    /\ UNCHANGED <<userIds, calls, referenceDate, processTZ>>
    /\ UNCHANGED scoreVars

NextBatch ==
    \/ StartBatch
    \/ \E i \in 1..Len(calls) :
           \E outcome \in QueryOutcomes(calls[i].userId, referenceDate) :
               FetchSettles(i, outcome)
    \/ \E i \in 1..Len(calls) : WrapperReturns(i)
    \/ BatchSettles

SpecBatch == InitBatch /\ [][NextBatch]_vars

-----------------------------------------------------------------------------
(* Properties *)

Returned == pc = "returned"
Out == result.value
Zone == TimezoneOrDefault(timezone)

\* The civil date (day number) that the zone rules give to instant t
CivilDate(t, zone) == (t + UtcOffset(zone, t)) \div TicksPerDay

RefDay == CivilDate(referenceDate, Zone)

\* C1: whatever the sessions, reference instant and recognized timezone,
\* the returned score is an integer between 0 and 100.
C1_ScoreInRange == Returned => Out.score \in 0..100

\* A call whose rounded raw sum exceeds 100 and is clamped
C1_Witness ==
    /\ Returned
    /\ MathRoundRawScore(Out.breakdown) > 100
    /\ Out.score = 100

\* C3: totalSessions is the number of input sessions, activeDays the number
\* of distinct civil dates of the sessions in the target timezone, and
\* activeDays <= totalSessions.
C3_SessionAndDayCounts ==
    Returned =>
        /\ Out.metadata.totalSessions = Len(sessions)
        /\ Out.metadata.activeDays =
               Cardinality({CivilDate(sessions[i].timestamp, Zone) :
                               i \in 1..Len(sessions)})
        /\ Out.metadata.activeDays <= Out.metadata.totalSessions

\* Several sessions on one civil date
C3_Witness ==
    /\ Returned
    /\ Out.metadata.activeDays = 1
    /\ Out.metadata.totalSessions >= 2

\* C4: chartData has exactly 28 entries, and they are the 28 consecutive
\* civil dates from the reference civil date - 27 through the reference
\* civil date in the target timezone, ascending.
C4_ChartIsWindow ==
    Returned =>
        /\ Len(Out.chartData) = WINDOW_DAYS
        /\ \A k \in 1..WINDOW_DAYS :
               Out.chartData[k].date = RefDay - WINDOW_DAYS + k

\* C5: every breakdown component stays within its bound: baseScore in
\* [0, 60], distributionBonus in [0, 25], streakBonus in [0, 10],
\* recencyBonus in [0, 5].
C5_BreakdownBounds ==
    Returned =>
        /\ Out.breakdown.baseScore \in 0..(60 * WINDOW_DAYS)
        /\ Out.breakdown.distributionBonus \in 0..(25 * WINDOW_DAYS)
        /\ Out.breakdown.streakBonus \in 0..10
        /\ Out.breakdown.recencyBonus \in 0..5

Input ==
    [sessions |-> sessions, referenceDate |-> referenceDate,
     timezone |-> timezone]

Swap(seq, i, j) == [seq EXCEPT ![i] = seq[j], ![j] = seq[i]]

\* The call with sessions i and i + 1 exchanged (adjacent exchanges generate
\* every permutation of the list)
Exchanged(i) == [Input EXCEPT !.sessions = Swap(sessions, i, i + 1)]

\* Supports C2: on one host, exchanging two sessions of the list does not
\* change any field of the outcome.
OrderIndependentOnOneHost ==
    pc # "input" =>
        \A i \in 1..(Len(sessions) - 1) :
            calculateConsistencyScore(Exchanged(i)) = result

\* C2: the outcome is a function of the multiset of sessions, the reference
\* instant and the timezone: a call with the same referenceDate and timezone
\* and an equal or permuted session list returns equal output in every field.
C2_FunctionOfInput ==
    /\ OrderIndependentOnOneHost
    /\ (pc # "input" /\ previous # Pending) => result = previous

C7_InvalidTimezoneThrows ==
    (pc # "input" /\ Zone \notin RecognizedZones) =>
        /\ pc = "threw"
        /\ result = [ok |-> FALSE, error |-> "RangeError"]

\* The empty list with an unrecognized zone
C7_Witness ==
    /\ pc = "threw"
    /\ sessions = <<>>
    /\ timezone = "Mars/Olympus"

RuleOrder == <<"frequency", "distribution", "streak", "recency", "gap">>

RuleOf(bullet) ==
    CASE bullet.template =
             "You trained ${activeDays} out of 28 days (${pct}%)" ->
             "frequency"
      [] bullet.template \in {"Your sessions are evenly distributed",
                              "Your sessions are fairly well spaced",
                              "Long gaps reduce your consistency score"} ->
             "distribution"
      [] bullet.template = "Longest streak: ${longestStreak} days" -> "streak"
      [] bullet.template \in
             {"You exercised today-great momentum!",
              "Last session was ${daysSinceLastSession} days ago"} ->
             "recency"
      [] bullet.template = "Longest gap: ${longestGap} days" -> "gap"

RuleHolds(rule, metadata) ==
    CASE rule = "frequency" -> TRUE
      [] rule = "distribution" -> metadata.activeDays >= 2
      [] rule = "streak" -> metadata.longestStreak > 1
      [] rule = "recency" -> metadata.daysSinceLastSession <= 3
      [] rule = "gap" -> metadata.longestGap > 7

IsPair(a, b) ==
    /\ Len(sessions) = 2
    /\ {sessions[1], sessions[2]} = {a, b}

ActiveDates ==
    {CivilDate(sessions[i].timestamp, Zone) : i \in 1..Len(sessions)}

\* Length of the run of consecutive dates of S that ends on date d
RunEndingAt(S, d) ==
    Cardinality({k \in 1..Cardinality(S) : \A j \in 0..(k - 1) : d - j \in S})

\* C11: streakBonus is min(2 * L, 10), where L is the length of the run of
\* consecutive active civil dates that ends on the reference civil date or
\* on the day immediately before it; L is 0 when neither of those two dates
\* is active, so a run that ended several days before the reference date
\* earns no streak bonus.
C11_CurrentStreakOnly ==
    Returned =>
        LET L == IF RefDay \in ActiveDates
                     THEN RunEndingAt(ActiveDates, RefDay)
                     ELSE RunEndingAt(ActiveDates, RefDay - 1)
        IN  Out.breakdown.streakBonus = Min(2 * L, MAX_STREAK_BONUS)

\* The 28 civil dates of the window that ends on the reference civil date
WindowDates == (RefDay - WINDOW_DAYS + 1)..RefDay

\* C12: a score of 100 is attainable: with all 28 days of the window active
\* (hence a current streak of at least 5 days and a session on the reference
\* date) the components are 60, 25, 10 and 5 and the score is 100.
C12_PerfectScore ==
    (Returned /\ ActiveDates = WindowDates) =>
        /\ Out.breakdown.baseScore = MAX_BASE_SCORE * WINDOW_DAYS
        /\ Out.breakdown.distributionBonus =
               MAX_DISTRIBUTION_BONUS * WINDOW_DAYS
        /\ Out.breakdown.streakBonus = MAX_STREAK_BONUS
        /\ Out.breakdown.recencyBonus = 5
        /\ Out.score = 100

\* The sum of the four components of the returned breakdown, over 28
BreakdownSum ==
    Out.breakdown.baseScore + Out.breakdown.distributionBonus
    + WINDOW_DAYS * (Out.breakdown.streakBonus + Out.breakdown.recencyBonus)

\* C13: the score is min(100, max(0, round(baseScore + distributionBonus +
\* streakBonus + recencyBonus))) of the breakdown returned in the same
\* result, streakBonus included; the sum is rounded once, to the nearest
\* integer, and no component is rounded on its own.  (When the exact sum lies
\* halfway between two integers, the double sum decides between them.)
C13_ScoreIsRoundedSum ==
    Returned =>
        LET n == RoundDiv(BreakdownSum, WINDOW_DAYS)
            half == (2 * BreakdownSum) % (2 * WINDOW_DAYS) = WINDOW_DAYS
            clamped(r) == IF r > 100 THEN 100 ELSE IF r < 0 THEN 0 ELSE r
        IN  \/ Out.score = clamped(n)
            \/ half /\ Out.score = clamped(n - 1)

\* A positive streak bonus, and fractions of baseScore and distributionBonus
\* that round down separately and up together
C13_Witness ==
    /\ Returned
    /\ Out.breakdown.streakBonus > 0
    /\ Out.score = RoundDiv(Out.breakdown.baseScore, WINDOW_DAYS)
                   + RoundDiv(Out.breakdown.distributionBonus, WINDOW_DAYS)
                   + Out.breakdown.streakBonus + Out.breakdown.recencyBonus
                   + 1

\* The counter of a backward walk over the dates d, d - 1, ..., d - n + 1:
\* an active date increments it, the first inactive date after the counter
\* became positive ends the walk, an inactive date before that is skipped
WalkCounter(S, d, n) ==
    LET hits == {i \in 0..(n - 1) : d - i \in S}
    IN  IF hits = {} THEN 0
        ELSE LET first == CHOOSE i \in hits : \A j \in hits : i <= j
             IN  Cardinality({k \in 1..(n - first) :
                                 \A j \in 0..(k - 1) : d - first - j \in S})

\* C14: for every recognized timezone, negative UTC offsets included, the
\* streak walk examines the 28 civil dates reference, reference - 1, ...,
\* reference - 27 of the target timezone, starting at the reference instant's
\* own civil date, and streakBonus is min(2 * counter, 10); in particular a
\* session on the reference civil date always gives streakBonus >= 2.
C14_StreakWalkFromReferenceDate ==
    Returned =>
        /\ Out.breakdown.streakBonus =
               Min(2 * WalkCounter(ActiveDates, RefDay, WINDOW_DAYS),
                   MAX_STREAK_BONUS)
        /\ RefDay \in ActiveDates => Out.breakdown.streakBonus >= 2

\* The latest civil date with a session
LatestActiveDate == CHOOSE d \in ActiveDates : \A e \in ActiveDates : e <= d

\* C15: for a non-empty session list and every recognized timezone, negative
\* and fractional offsets included, daysSinceLastSession is the whole-day
\* difference between the reference civil date and the latest active civil
\* date, with no off-by-one; it is 0 exactly when the latest session falls
\* on the reference civil date.
C15_DaysSinceLastSession ==
    (Returned /\ sessions # <<>>) =>
        /\ Out.metadata.daysSinceLastSession = RefDay - LatestActiveDate
        /\ Out.metadata.daysSinceLastSession = 0 <=> LatestActiveDate = RefDay

\* The latest session is on the reference civil date of a zone whose civil
\* date differs from the UTC date of the reference instant
C15_Witness ==
    /\ Returned
    /\ sessions # <<>>
    /\ RefDay # CivilDate(referenceDate, "UTC")
    /\ Out.metadata.daysSinceLastSession = 0

LongestRun(S) ==
    LET runs == {RunEndingAt(S, d) : d \in S}
    IN  CHOOSE r \in runs : \A q \in runs : q <= r

\* C17: for a non-empty history longestStreak is the length of the longest
\* run of consecutive active civil dates; 1 <= longestStreak <= activeDays,
\* with equality exactly when all active days are consecutive (28
\* consecutive active days give 28).
C17_LongestStreak ==
    (Returned /\ sessions # <<>>) =>
        LET first == CHOOSE d \in ActiveDates : \A e \in ActiveDates : d <= e
            consecutive == ActiveDates = first..LatestActiveDate
        IN  /\ Out.metadata.longestStreak = LongestRun(ActiveDates)
            /\ 1 <= Out.metadata.longestStreak
            /\ Out.metadata.longestStreak <= Out.metadata.activeDays
            /\ Out.metadata.longestStreak = Out.metadata.activeDays
                   <=> consecutive
            /\ sessions = DailyRun(52, 79) =>
                   Out.metadata.longestStreak = WINDOW_DAYS

\* The longest run is followed by a gap and a shorter run
C17_Witness ==
    /\ Returned
    /\ sessions # <<>>
    /\ Out.metadata.longestStreak >= 2
    /\ RunEndingAt(ActiveDates, LatestActiveDate) < Out.metadata.longestStreak

\* Every chart entry counts the input sessions of its own date
ChartEntriesCountSessions ==
    \A k \in 1..Len(Out.chartData) :
        /\ Out.chartData[k].sessionCount =
               Cardinality({i \in 1..Len(sessions) :
                               CivilDate(sessions[i].timestamp, Zone)
                                   = Out.chartData[k].date})
        /\ Out.chartData[k].hasActivity <=> Out.chartData[k].sessionCount > 0

\* C18: each chart entry's sessionCount is the number of input sessions
\* whose civil date is the entry's date, and hasActivity holds exactly when
\* that count is positive; consequently, when every session falls on one of
\* the 28 civil dates of the window, the number of active chart entries is
\* metadata.activeDays and the chart's sessionCounts sum to totalSessions.
C18_ChartMatchesMetadata ==
    Returned =>
        /\ ChartEntriesCountSessions
        /\ ActiveDates \subseteq WindowDates =>
               /\ Cardinality({k \in 1..Len(Out.chartData) :
                                  Out.chartData[k].hasActivity})
                      = Out.metadata.activeDays
               /\ SumOf([k \in 1..Len(Out.chartData) |->
                            Out.chartData[k].sessionCount])
                      = Out.metadata.totalSessions

BatchResolved == batch.ok
BatchRejected == ~batch.ok /\ batch \notin {NotCalled, Pending}

\* The positions of the list at which user u was requested
PositionsOf(u) == {i \in 1..Len(calls) : calls[i].userId = u}

\* C19 as stated: for any list of user ids and any outcome and completion
\* order of the fetches, the batch resolves, never rejects, with a map that
\* has an entry for every requested user id; a user whose fetch failed maps
\* to the empty list and a user whose fetch succeeded maps to exactly the
\* sessions that fetch returned, unaffected by other users' failures.
C19_FailSoftPerUser ==
    /\ ~BatchRejected
    /\ BatchResolved =>
           /\ DOMAIN batch.value = {userIds[i] : i \in 1..Len(userIds)}
           /\ \A i \in 1..Len(calls) :
                  batch.value[calls[i].userId] =
                      IF calls[i].fetch.ok THEN calls[i].fetch.value
                      ELSE <<>>

\* C19, amended: the batch never rejects and resolves with a map that has an
\* entry for every requested user id; an id maps to the outcome of the fetch
\* started for its last position in the list: the empty list if that fetch
\* failed, exactly the sessions it returned if it succeeded.  For an id that
\* is requested once this is the outcome of its only fetch, whatever the
\* other fetches did and in whatever order they completed.
C19_FailSoftPerPosition ==
    /\ ~BatchRejected
    /\ BatchResolved =>
           /\ DOMAIN batch.value = {userIds[i] : i \in 1..Len(userIds)}
           /\ \A u \in DOMAIN batch.value :
                  LET last == CHOOSE i \in PositionsOf(u) :
                                  \A j \in PositionsOf(u) : j <= i
                  IN  batch.value[u] =
                          IF calls[last].fetch.ok THEN calls[last].fetch.value
                          ELSE <<>>

\* Two different users, the fetch of the first failed after the fetch of the
\* second succeeded with sessions, and the batch resolved
C19_Witness ==
    /\ BatchResolved
    /\ Len(calls) = 2
    /\ calls[1].userId # calls[2].userId
    /\ ~calls[1].fetch.ok
    /\ calls[2].fetch.ok
    /\ batch.value[calls[1].userId] = <<>>
    /\ batch.value[calls[2].userId] # <<>>

\* The scored list is what fetchUserSessions returns for some user, with the
\* default window and the reference instant of the score, on this host
Fetched ==
    \E u \in Users :
        sessions = fetchUserSessions(Db, u, DEFAULT_WINDOW_DAYS,
                                     Options(Missing, Num(referenceDate)),
                                     referenceDate)

\* C20: the fetch window matches the scoring window: every session that
\* fetchUserSessions returns with the default days = 28 and reference R
\* falls on one of the 28 chart civil dates R - 27 .. R, so scoring a
\* fetched list with the same R (in the zone of the host) gives
\* activeDays <= 28 and a frequency percentage <= 100.
C20_FetchWindowIsScoringWindow ==
    (Returned /\ Fetched /\ Zone = processTZ) =>
        /\ ActiveDates \subseteq WindowDates
        /\ Out.metadata.activeDays <= WINDOW_DAYS
        /\ Out.explanations[1].args[2] <= 100

====
